---- MODULE Spec2Model ----
(***************************************************************************)
(* Model of app.py of the viral-reel generator: the run triggered by the   *)
(* "Auto-Edit & Generate Reel" button (main block), the Segment Selector   *)
(* analyze_videos_with_gemini (upload, poll, generate with retry, parse    *)
(* cascade) and the Video Assembler process_video_segments (per-segment    *)
(* validation, crop geometry, concatenation, audio mix, encode), followed  *)
(* by the Cleanup loop.                                                    *)
(*                                                                         *)
(* Times are integers in tenths of a second (0.5 s = 5).  Temp files are   *)
(* named <<"video", i>>, <<"audio", 1>>, <<"output", 1>>.  A Python value  *)
(* that may be None is a sequence of length at most one: <<>> is None and  *)
(* <<x>> is the value x.  Colour filters and fades change pixel content    *)
(* only and are not part of the state.                                     *)
(***************************************************************************)
EXTENDS Integers, Sequences, FiniteSets, TLC

\* ---------------------------------------------------------------- bounds
\* Longest Edit Decision List the model explores.
MaxSegs == 2
\* Most "PROCESSING" answers one run observes while polling file handles.
MaxPolls == 2
\* Longest response text, in tokens, the parse cascade is explored on.
MaxLen == 6
\* Frame widths and heights 1..MaxDim are explored besides StandardDims.
MaxDim == 48

\* ------------------------------------------------------ program constants
max_retries == 3
target_w == 1080
target_h == 1920
\* 0.5 s, in tenths of a second
MinClip == 5

\* ------------------------------------------------------------ input sets
\* Durations (tenths of a second) of the uploaded videos, by upload order.
SourceDurations == <<20, 22>>
\* Frame sizes <<w, h>> of the uploaded videos, by upload order.
SourceSizes == << <<1920, 1080>>, <<1080, 1920>> >>
NumSources == Len(SourceDurations)
StartTimes == {0, 15, 17}
EndTimes == {4, 20, 25}
SourceIndexes == (0 - (NumSources + 1)) .. NumSources
AllSegments ==
    [source_index : SourceIndexes, start_time : StartTimes, end_time : EndTimes]
AllEDLs == UNION {[1..k -> AllSegments] : k \in 1..MaxSegs}
Seg(i, s, e) == [source_index |-> i, start_time |-> s, end_time |-> e]
\* Representative segments for whole runs: kept, too short, index too large,
\* negative index inside -len..-1, negative index below -len.
SampleSegments ==
    {Seg(0, 0, 20), Seg(0, 17, 20), Seg(NumSources, 0, 20), Seg(0 - 1, 0, 25),
     Seg(0 - (NumSources + 1), 0, 20)}
RunEDLs == UNION {[1..k -> SampleSegments] : k \in 0..MaxSegs}
AudioDurations == {10, 60}
BgMusicChoices ==
    {[supplied |-> FALSE, duration |-> 0]}
        \cup {[supplied |-> TRUE, duration |-> d] : d \in AudioDurations}
FileStates == {"PROCESSING", "ACTIVE", "FAILED"}
StandardDims == {720, 1080, 1280, 1920}
Dims == (1..MaxDim) \cup StandardDims

\* Response text as tokens: "[" "]" brackets, "v" a JSON scalar (stands for
\* the array's content), "F" a ``` fence (with or without the json tag),
\* "/" the two characters //, "n" a newline (whitespace), "x" prose.
Tokens == {"[", "]", "v", "F", "/", "n", "x"}
Texts == UNION {[1..k -> Tokens] : k \in 0..MaxLen}
GoodTexts == {<<"[", "v", "]">>, <<"x", "F", "[", "v", "]", "F">>, <<"[", "v", "/", "x", "n", "]">>}
BadTexts == {<<"x", "[", "v">>}
RunResponses ==
    {[text |-> t, edl |-> e] : t \in GoodTexts, e \in RunEDLs}
        \cup {[text |-> t, edl |-> <<>>] : t \in BadTexts}

VARIABLES
    pc,              \* position of the run
    checks_passed,   \* the run got past the api-key and upload checks
    n_files,         \* len(uploaded_files)
    bg_music,        \* the optional mp3 upload
    fs,              \* temp files that exist on disk
    created,         \* temp files the run ever created
    temp_paths,      \* analyze_videos_with_gemini: temp_paths
    uploaded_files,  \* analyze_videos_with_gemini: handles returned by upload
    poll_idx,        \* wait_for_files_active: handle being polled
    polls,           \* "PROCESSING" answers seen so far
    observed,        \* handles observed in state ACTIVE
    attempt,         \* retry loop variable
    backoff,         \* the wait_time of every time.sleep of the retry loop
    gen_requests,    \* calls of model.generate_content
    response,        \* the response: its text and the list its array denotes
    tried,           \* parse strategies attempted, in order
    parsed,          \* value returned by the successful json.loads
    raw_shown,       \* raw response text shown by st.code
    segments,        \* main: segments (None or a list)
    seg_idx,         \* process_video_segments: loop position
    outcomes,        \* what happened to each segment processed so far
    opened,          \* temp_paths positions opened with VideoFileClip
    clips,           \* process_video_segments: clips
    concat_input,    \* the clip list handed to concatenate_videoclips
    music,           \* how the music track was fitted
    encoded,         \* write_videofile completed
    final_video_path,\* main: final_video_path (None or a path)
    presented,       \* st.video shown
    status,          \* label of the status widget
    error,           \* kind of the last st.error shown ("none" if none)
    frame,           \* frame size <<w, h>> given to the crop step
    crop,            \* the crop rectangle computed for frame
    out_size         \* size passed to resize

vars ==
    <<pc, checks_passed, n_files, bg_music, fs, created, temp_paths,
      uploaded_files, poll_idx, polls, observed, attempt, backoff,
      gen_requests, response, tried, parsed, raw_shown, segments, seg_idx,
      outcomes, opened, clips, concat_input, music, encoded,
      final_video_path, presented, status, error, frame, crop, out_size>>

inputVars == <<checks_passed, n_files, bg_music>>
selectorVars ==
    <<uploaded_files, poll_idx, polls, observed, attempt, backoff,
      gen_requests>>
parseVars == <<response, tried, parsed, raw_shown>>
assemblerVars ==
    <<seg_idx, outcomes, opened, clips, concat_input, music, encoded,
      final_video_path>>
cropVars == <<frame, crop, out_size>>

VideoFile(i) == <<"video", i>>
AudioFile == <<"audio", 1>>
OutputFile == <<"output", 1>>
NoCrop == [crop_w |-> 0, crop_h |-> 0, x1 |-> 0, y1 |-> 0]
NoResponse == [text |-> <<>>, edl |-> <<>>]
NoMusic == [supplied |-> FALSE, duration |-> 0]


\* ------------------------------------------------------- pure operators
Range(f) == {f[i] : i \in DOMAIN f}

\* json.loads skips whitespace between tokens.
StripWs(s) == SelectSeq(s, LAMBDA t : t # "n")

\* The token grammar of a JSON value: a scalar, [] or [value].
RECURSIVE IsJsonValue(_)
IsJsonValue(s) ==
    \/ s = <<"v">>
    \/ s = <<"[", "]">>
    \/ /\ Len(s) >= 3
       /\ s[1] = "["
       /\ s[Len(s)] = "]"
       /\ IsJsonValue(SubSeq(s, 2, Len(s) - 1))

\* json.loads: ok, and the parsed value (the text without whitespace).
json_loads(s) ==
    LET t == StripWs(s)
    IN  [ok |-> IsJsonValue(t), val |-> IF IsJsonValue(t) THEN t ELSE <<>>]

\* \s* : the first position from i on that holds no whitespace.
RECURSIVE SkipWs(_, _)
SkipWs(t, i) == IF i <= Len(t) /\ t[i] = "n" THEN SkipWs(t, i + 1) ELSE i

\* k closes a group opened at j: t[k] is "]" and \s*``` follows it.
ClosesFence(t, k) ==
    /\ t[k] = "]"
    /\ LET m == SkipWs(t, k + 1) IN m <= Len(t) /\ t[m] = "F"

\* ```(?:json)?\s*(\[.*?\])\s*``` matches with its opening fence at i.
FenceAt(t, i) ==
    /\ t[i] = "F"
    /\ LET j == SkipWs(t, i + 1)
       IN  /\ j <= Len(t)
           /\ t[j] = "["
           /\ \E k \in (j + 1)..Len(t) : ClosesFence(t, k)

Min(S) == CHOOSE x \in S : \A y \in S : x <= y
Max(S) == CHOOSE x \in S : \A y \in S : x >= y

\* re.search of the fenced-block pattern: None, or group(1).  The search
\* takes the leftmost opening fence that matches and the lazy .*? stops
\* at the first "]" that the closing fence follows.
FencedGroup(t) ==
    LET starts == {i \in 1..Len(t) : FenceAt(t, i)}
    IN  IF starts = {} THEN <<>>
        ELSE LET j == SkipWs(t, Min(starts) + 1)
                 k == Min({k \in (j + 1)..Len(t) : ClosesFence(t, k)})
             IN  <<SubSeq(t, j, k)>>

\* re.search(r'(\[.*\])', DOTALL): None, or the text from the first "["
\* to the last "]" after it.
ArrayGroup(t) ==
    LET opens == {i \in 1..Len(t) : t[i] = "["}
    IN  IF opens = {} THEN <<>>
        ELSE LET closes == {k \in (Min(opens) + 1)..Len(t) : t[k] = "]"}
             IN  IF closes = {} THEN <<>>
                 ELSE <<SubSeq(t, Min(opens), Max(closes))>>

\* re.sub(r'//.*$', '', s, MULTILINE): on every line, drop everything from
\* the first // to the end of the line (the newline stays).
RECURSIVE StripFrom(_, _)
StripFrom(s, inComment) ==
    IF s = <<>> THEN <<>>
    ELSE IF Head(s) = "n" THEN <<"n">> \o StripFrom(Tail(s), FALSE)
    ELSE IF inComment \/ Head(s) = "/" THEN StripFrom(Tail(s), TRUE)
    ELSE <<Head(s)>> \o StripFrom(Tail(s), FALSE)

StripComments(s) == StripFrom(s, FALSE)

\* Mutant of WaitTime: the factor 2 forgotten.
WaitTimeNoBase(a) == 2 ^ a

\* The retry loop's wait_time.
WaitTime(a) == (2 ^ a) * 2

\* Mutant of FileFailed: the state check after the polling loop left out.
FileFailedNever(st) == FALSE

\* wait_for_files_active: a settled handle that is not ACTIVE raises.
FileFailed(st) == st # "ACTIVE"

\* `if segments:` -- None and the empty list are both falsy.
Truthy(opt) == opt # <<>> /\ opt[1] # <<>>

\* Mutant of NotClips: the empty clip list not detected.
NotClipsNever(cs) == FALSE

\* `if not clips:`
NotClips(cs) == cs = <<>>

\* `if idx >= len(temp_paths): continue`
IndexSkipped(idx, n) == idx >= n

\* temp_paths[idx] raises IndexError below -len.
PyIndexError(idx, n) == idx < 0 - n

\* temp_paths[idx], as a position 1..n: a negative idx counts from the end.
PyIndex(idx, n) == IF idx >= 0 THEN idx + 1 ELSE n + idx + 1

\* Mutant of EndClamp: the end time validated as given.
EndNoClamp(end, duration) == end

\* `if end > original_clip.duration: end = original_clip.duration`
EndClamp(end, duration) == IF end > duration THEN duration ELSE end

\* The time validation, on the clamped end.
TimeCheck(start, end) ==
    IF start >= end THEN "skip_inverted"
    ELSE IF (end - start) < MinClip THEN "skip_short"
    ELSE "clip"

\* One iteration of the segment loop, up to the decision about the segment.
SegmentOutcome(segment, n) ==
    LET idx == segment.source_index
    IN  IF IndexSkipped(idx, n) THEN "skip_index"
        ELSE IF PyIndexError(idx, n) THEN "index_error"
        ELSE TimeCheck(segment.start_time,
                       EndClamp(segment.end_time, SourceDurations[PyIndex(idx, n)]))

\* Mutant of CropRect: the crop taken from the top-left corner.
CropRectCorner(w, h) ==
    IF w * target_h > h * target_w
    THEN [crop_w |-> (h * target_w) \div target_h, crop_h |-> h,
          x1 |-> 0, y1 |-> 0]
    ELSE [crop_w |-> w, crop_h |-> (w * target_h) \div target_w,
          x1 |-> 0, y1 |-> 0]

\* The zero-distortion crop: the rectangle cut from a w x h frame.
\* target_ratio is 1080/1920 = 0.5625, exact in binary floating point, so
\* orig_w / orig_h > target_ratio is 1920 * w > 1080 * h, int(h * ratio)
\* is floor(1080 h / 1920) and int(w / ratio) is floor(1920 w / 1080).
CropRect(w, h) ==
    IF w * target_h > h * target_w
    THEN LET cw == (h * target_w) \div target_h
         IN  [crop_w |-> cw, crop_h |-> h, x1 |-> (w - cw) \div 2, y1 |-> 0]
    ELSE LET ch == (w * target_h) \div target_w
         IN  [crop_w |-> w, crop_h |-> ch, x1 |-> 0, y1 |-> (h - ch) \div 2]

\* sub = original_clip.subclip(start, end), cropped and resized.
MakeClip(segment, n) ==
    LET src == PyIndex(segment.source_index, n)
    IN  [source |-> src,
         start |-> segment.start_time,
         end |-> EndClamp(segment.end_time, SourceDurations[src]),
         crop |-> CropRect(SourceSizes[src][1], SourceSizes[src][2]),
         size |-> <<target_w, target_h>>]

\* Mutant of AppendClip: the clip put at the front of the list.
PrependClip(cs, c) == <<c>> \o cs

\* clips.append(final_clip)
AppendClip(cs, c) == Append(cs, c)

\* final_video.duration: the clips' durations added up.
RECURSIVE VideoDuration(_)
VideoDuration(cs) ==
    IF cs = <<>> THEN 0
    ELSE (Head(cs).end - Head(cs).start) + VideoDuration(Tail(cs))

\* loop the music when it is shorter than the video, else trim it.
FitMusic(duration, video) == IF duration < video THEN "looped" ELSE "trimmed"


\* -------------------------------------------------------------- the run
\* What `except Exception` of analyze_videos_with_gemini and the early
\* `return None, temp_paths` leave behind: segments is None.
AnalysisReturnsNone(kind) ==
    /\ segments' = <<>>
    /\ error' = kind
    /\ pc' = "analyzed"

\* What `except Exception` of process_video_segments leaves behind.
ProcessReturnsNone(kind) ==
    /\ final_video_path' = <<>>
    /\ error' = kind
    /\ pc' = "processed"

\* The button is pressed: the api-key and upload checks, then the run.
Click ==
    /\ pc = "idle"
    /\ \E key \in BOOLEAN, n \in 0..NumSources, m \in BgMusicChoices :
          /\ n_files' = n
          /\ bg_music' = m
          /\ IF ~key
             THEN /\ error' = "API Key is missing!"
                  /\ checks_passed' = FALSE
                  /\ pc' = "done"
             ELSE IF n = 0
             THEN /\ error' = "Please upload at least one video."
                  /\ checks_passed' = FALSE
                  /\ pc' = "done"
             ELSE /\ error' = error
                  /\ checks_passed' = TRUE
                  /\ pc' = "upload"
    /\ UNCHANGED <<fs, created, temp_paths, segments, presented, status>>
    /\ UNCHANGED <<selectorVars, parseVars, assemblerVars, cropVars>>

\* One iteration of the upload loop: temp copy, then upload_to_gemini.
UploadOne ==
    /\ pc = "upload"
    /\ LET i == Len(temp_paths) + 1
       IN  /\ fs' = fs \cup {VideoFile(i)}
           /\ created' = created \cup {VideoFile(i)}
           /\ temp_paths' = Append(temp_paths, VideoFile(i))
           /\ uploaded_files' = Append(uploaded_files, i)
           /\ pc' = IF i = n_files THEN "poll" ELSE "upload"
    /\ UNCHANGED <<poll_idx, polls, observed, attempt, backoff, gen_requests>>
    /\ UNCHANGED <<segments, presented, status, error>>
    /\ UNCHANGED <<inputVars, parseVars, assemblerVars, cropVars>>

\* The same iteration when genai.upload_file raises.
UploadFail ==
    /\ pc = "upload"
    /\ LET i == Len(temp_paths) + 1
       IN  /\ fs' = fs \cup {VideoFile(i)}
           /\ created' = created \cup {VideoFile(i)}
           /\ temp_paths' = Append(temp_paths, VideoFile(i))
    /\ AnalysisReturnsNone("upload")
    /\ UNCHANGED <<presented, status>>
    /\ UNCHANGED <<inputVars, selectorVars, parseVars, assemblerVars, cropVars>>

\* The same iteration when reading the upload or writing the temp copy
\* raises: the temp file exists but its name was not appended to temp_paths.
PersistFail ==
    /\ pc = "upload"
    /\ LET i == Len(temp_paths) + 1
       IN  /\ fs' = fs \cup {VideoFile(i)}
           /\ created' = created \cup {VideoFile(i)}
    /\ AnalysisReturnsNone("persist")
    /\ UNCHANGED <<temp_paths, presented, status>>
    /\ UNCHANGED <<inputVars, selectorVars, parseVars, assemblerVars, cropVars>>

\* wait_for_files_active: the handle is still PROCESSING; sleep and ask again.
PollProcessing ==
    /\ pc = "poll"
    /\ polls < MaxPolls
    /\ polls' = polls + 1
    /\ UNCHANGED <<uploaded_files, poll_idx, observed, attempt, backoff,
                   gen_requests>>
    /\ UNCHANGED <<pc, fs, created, temp_paths, segments, presented, status,
                   error>>
    /\ UNCHANGED <<inputVars, parseVars, assemblerVars, cropVars>>

\* The handle left PROCESSING in a state that passes the check: next handle,
\* and after the last one the generation request.
PollAdvance ==
    /\ pc = "poll"
    /\ \E st \in FileStates \ {"PROCESSING"} :
          /\ ~FileFailed(st)
          /\ observed' = IF st = "ACTIVE" THEN observed \cup {poll_idx}
                         ELSE observed
    /\ IF poll_idx = Len(uploaded_files)
       THEN pc' = "generate" /\ poll_idx' = poll_idx
       ELSE pc' = pc /\ poll_idx' = poll_idx + 1
    /\ UNCHANGED <<uploaded_files, polls, attempt, backoff, gen_requests>>
    /\ UNCHANGED <<fs, created, temp_paths, segments, presented, status,
                   error>>
    /\ UNCHANGED <<inputVars, parseVars, assemblerVars, cropVars>>

\* The handle left PROCESSING in another state: the exception ends analysis.
PollFailed ==
    /\ pc = "poll"
    /\ \E st \in FileStates \ {"PROCESSING"} : FileFailed(st)
    /\ AnalysisReturnsNone("file_failed")
    /\ UNCHANGED <<fs, created, temp_paths, presented, status>>
    /\ UNCHANGED <<inputVars, selectorVars, parseVars, assemblerVars, cropVars>>

\* model.generate_content returns a response.
GenerateOk ==
    /\ pc = "generate"
    /\ gen_requests' = gen_requests + 1
    /\ \E r \in RunResponses : response' = r
    /\ pc' = "parse_direct"
    /\ UNCHANGED <<uploaded_files, poll_idx, polls, observed, attempt, backoff>>
    /\ UNCHANGED <<tried, parsed, raw_shown>>
    /\ UNCHANGED <<fs, created, temp_paths, segments, presented, status,
                   error>>
    /\ UNCHANGED <<inputVars, assemblerVars, cropVars>>

\* model.generate_content raises a rate-limit error ("429" or "Resource
\* exhausted"): sleep and retry, or give up on the last attempt.
GenerateRateLimited ==
    /\ pc = "generate"
    /\ gen_requests' = gen_requests + 1
    /\ IF attempt < max_retries - 1
       THEN /\ backoff' = Append(backoff, WaitTime(attempt))
            /\ attempt' = attempt + 1
            /\ UNCHANGED <<pc, segments, error>>
       ELSE /\ AnalysisReturnsNone("rate_limit")
            /\ UNCHANGED <<attempt, backoff>>
    /\ UNCHANGED <<uploaded_files, poll_idx, polls, observed>>
    /\ UNCHANGED <<fs, created, temp_paths, presented, status>>
    /\ UNCHANGED <<inputVars, parseVars, assemblerVars, cropVars>>

\* model.generate_content raises any other error: re-raised, no retry.
GenerateError ==
    /\ pc = "generate"
    /\ gen_requests' = gen_requests + 1
    /\ AnalysisReturnsNone("generate")
    /\ UNCHANGED <<uploaded_files, poll_idx, polls, observed, attempt, backoff>>
    /\ UNCHANGED <<fs, created, temp_paths, presented, status>>
    /\ UNCHANGED <<inputVars, parseVars, assemblerVars, cropVars>>

\* A parse strategy succeeded: `return segments, temp_paths`.
ParseReturns(val) ==
    /\ parsed' = <<val>>
    /\ segments' = <<response.edl>>
    /\ pc' = "analyzed"
    /\ UNCHANGED <<raw_shown, error>>

\* json.loads(response.text)
ParseDirect ==
    /\ pc = "parse_direct"
    /\ tried' = Append(tried, 1)
    /\ LET r == json_loads(response.text)
       IN  IF r.ok THEN ParseReturns(r.val)
           ELSE /\ pc' = "parse_fenced"
                /\ UNCHANGED <<parsed, raw_shown, segments, error>>
    /\ UNCHANGED <<response, fs, created, temp_paths, presented, status>>
    /\ UNCHANGED <<inputVars, selectorVars, assemblerVars, cropVars>>

\* Mutant of ParseFenced: the `return` after a successful fenced parse lost,
\* so the cascade goes on to the bracketed-array strategy.
ParseFencedNoReturn ==
    /\ pc = "parse_fenced"
    /\ tried' = Append(tried, 2)
    /\ LET g == FencedGroup(response.text)
       IN  parsed' = IF g # <<>> /\ json_loads(g[1]).ok
                     THEN <<json_loads(g[1]).val>> ELSE parsed
    /\ pc' = "parse_array"
    /\ UNCHANGED <<raw_shown, segments, error>>
    /\ UNCHANGED <<response, fs, created, temp_paths, presented, status>>
    /\ UNCHANGED <<inputVars, selectorVars, assemblerVars, cropVars>>

\* The fenced-code-block strategy.
ParseFenced ==
    /\ pc = "parse_fenced"
    /\ tried' = Append(tried, 2)
    /\ LET g == FencedGroup(response.text)
       IN  IF g # <<>> /\ json_loads(g[1]).ok
           THEN ParseReturns(json_loads(g[1]).val)
           ELSE /\ pc' = "parse_array"
                /\ UNCHANGED <<parsed, raw_shown, segments, error>>
    /\ UNCHANGED <<response, fs, created, temp_paths, presented, status>>
    /\ UNCHANGED <<inputVars, selectorVars, assemblerVars, cropVars>>

\* The bracketed-array strategy with // comments stripped; when it fails
\* too, the raw text is shown and None is returned.
ParseArray ==
    /\ pc = "parse_array"
    /\ tried' = Append(tried, 3)
    /\ LET g == ArrayGroup(response.text)
       IN  IF g # <<>> /\ json_loads(StripComments(g[1])).ok
           THEN ParseReturns(json_loads(StripComments(g[1])).val)
           ELSE /\ raw_shown' = <<response.text>>
                /\ AnalysisReturnsNone("malformed")
                /\ UNCHANGED parsed
    /\ UNCHANGED <<response, fs, created, temp_paths, presented, status>>
    /\ UNCHANGED <<inputVars, selectorVars, assemblerVars, cropVars>>

\* main: `if segments:` -- on to the Assembler, or "Could not analyze videos".
MainCheckSegments ==
    /\ pc = "analyzed"
    /\ IF Truthy(segments)
       THEN pc' = "segments" /\ status' = "Analysis Complete"
       ELSE pc' = "cleanup" /\ status' = "Could not analyze videos"
    /\ UNCHANGED <<fs, created, temp_paths, segments, presented, error>>
    /\ UNCHANGED <<inputVars, selectorVars, parseVars, assemblerVars, cropVars>>


\* ------------------------------------------------ process_video_segments
\* One iteration of `for segment in segments` that raises nothing.
ProcessSegment ==
    /\ pc = "segments"
    /\ seg_idx <= Len(segments[1])
    /\ LET segment == segments[1][seg_idx]
           n == Len(temp_paths)
           kind == SegmentOutcome(segment, n)
       IN  /\ outcomes' = Append(outcomes, kind)
           /\ IF kind = "index_error"
              THEN /\ ProcessReturnsNone("index_error")
                   /\ UNCHANGED <<seg_idx, opened, clips>>
              ELSE /\ seg_idx' = seg_idx + 1
                   /\ opened' = IF kind = "skip_index" THEN opened
                                ELSE Append(opened, PyIndex(segment.source_index, n))
                   /\ clips' = IF kind = "clip"
                               THEN AppendClip(clips, MakeClip(segment, n))
                               ELSE clips
                   /\ UNCHANGED <<pc, final_video_path, error>>
    /\ UNCHANGED <<concat_input, music, encoded>>
    /\ UNCHANGED <<fs, created, temp_paths, segments, presented, status>>
    /\ UNCHANGED <<inputVars, selectorVars, parseVars, cropVars>>

\* The iteration when VideoFileClip, subclip, crop, resize or an effect raises.
ClipError ==
    /\ pc = "segments"
    /\ seg_idx <= Len(segments[1])
    /\ LET segment == segments[1][seg_idx]
           n == Len(temp_paths)
       IN  /\ ~IndexSkipped(segment.source_index, n)
           /\ ~PyIndexError(segment.source_index, n)
           /\ opened' = Append(opened, PyIndex(segment.source_index, n))
    /\ outcomes' = Append(outcomes, "error")
    /\ ProcessReturnsNone("clip")
    /\ UNCHANGED <<seg_idx, clips, concat_input, music, encoded>>
    /\ UNCHANGED <<fs, created, temp_paths, segments, presented, status>>
    /\ UNCHANGED <<inputVars, selectorVars, parseVars, cropVars>>

\* `if not clips: return None`
NoClips ==
    /\ pc = "segments"
    /\ seg_idx > Len(segments[1])
    /\ NotClips(clips)
    /\ final_video_path' = <<>>
    /\ pc' = "processed"
    /\ UNCHANGED <<seg_idx, outcomes, opened, clips, concat_input, music,
                   encoded>>
    /\ UNCHANGED <<fs, created, temp_paths, segments, presented, status, error>>
    /\ UNCHANGED <<inputVars, selectorVars, parseVars, cropVars>>

\* concatenate_videoclips(clips, method="compose")
Concatenate ==
    /\ pc = "segments"
    /\ seg_idx > Len(segments[1])
    /\ ~NotClips(clips)
    /\ concat_input' = <<clips>>
    /\ pc' = IF bg_music.supplied THEN "audio" ELSE "encode"
    /\ UNCHANGED <<seg_idx, outcomes, opened, clips, music, encoded,
                   final_video_path>>
    /\ UNCHANGED <<fs, created, temp_paths, segments, presented, status, error>>
    /\ UNCHANGED <<inputVars, selectorVars, parseVars, cropVars>>

\* concatenate_videoclips raises.
ConcatError ==
    /\ pc = "segments"
    /\ seg_idx > Len(segments[1])
    /\ ~NotClips(clips)
    /\ concat_input' = <<clips>>
    /\ ProcessReturnsNone("concat")
    /\ UNCHANGED <<seg_idx, outcomes, opened, clips, music, encoded>>
    /\ UNCHANGED <<fs, created, temp_paths, segments, presented, status>>
    /\ UNCHANGED <<inputVars, selectorVars, parseVars, cropVars>>

\* The background-music block when nothing raises: the mp3 is persisted,
\* loaded, looped or trimmed, mixed, and its temp file removed.
AudioMix ==
    /\ pc = "audio"
    /\ created' = created \cup {AudioFile}
    /\ fs' = (fs \cup {AudioFile}) \ {AudioFile}
    /\ music' = FitMusic(bg_music.duration, VideoDuration(clips))
    /\ pc' = "encode"
    /\ UNCHANGED <<seg_idx, outcomes, opened, clips, concat_input, encoded,
                   final_video_path>>
    /\ UNCHANGED <<temp_paths, segments, presented, status, error>>
    /\ UNCHANGED <<inputVars, selectorVars, parseVars, cropVars>>

\* The block when AudioFileClip, the loop, subclip, volumex or set_audio
\* raises: the mp3 was persisted and os.remove is not reached.
AudioError ==
    /\ pc = "audio"
    /\ created' = created \cup {AudioFile}
    /\ fs' = fs \cup {AudioFile}
    /\ ProcessReturnsNone("audio")
    /\ UNCHANGED <<seg_idx, outcomes, opened, clips, concat_input, music,
                   encoded>>
    /\ UNCHANGED <<temp_paths, segments, presented, status>>
    /\ UNCHANGED <<inputVars, selectorVars, parseVars, cropVars>>

\* The output temp file is created and write_videofile fills it.
Encode ==
    /\ pc = "encode"
    /\ created' = created \cup {OutputFile}
    /\ fs' = fs \cup {OutputFile}
    /\ encoded' = TRUE
    /\ final_video_path' = <<OutputFile>>
    /\ pc' = "processed"
    /\ UNCHANGED <<seg_idx, outcomes, opened, clips, concat_input, music>>
    /\ UNCHANGED <<temp_paths, segments, presented, status, error>>
    /\ UNCHANGED <<inputVars, selectorVars, parseVars, cropVars>>

\* The output temp file is created and write_videofile raises.
EncodeError ==
    /\ pc = "encode"
    /\ created' = created \cup {OutputFile}
    /\ fs' = fs \cup {OutputFile}
    /\ ProcessReturnsNone("encode")
    /\ UNCHANGED <<seg_idx, outcomes, opened, clips, concat_input, music,
                   encoded>>
    /\ UNCHANGED <<temp_paths, segments, presented, status>>
    /\ UNCHANGED <<inputVars, selectorVars, parseVars, cropVars>>

\* main: `if final_video_path:` -- show the reel, or report the failure.
MainResult ==
    /\ pc = "processed"
    /\ IF final_video_path # <<>>
       THEN presented' = TRUE /\ status' = "Reel Ready!"
       ELSE presented' = presented /\ status' = "Failed to generate video"
    /\ pc' = "cleanup"
    /\ UNCHANGED <<fs, created, temp_paths, segments, error>>
    /\ UNCHANGED <<inputVars, selectorVars, parseVars, assemblerVars, cropVars>>

\* main: the Cleanup loop, os.remove of every path of temp_paths.
Cleanup ==
    /\ pc = "cleanup"
    /\ fs' = fs \ Range(temp_paths)
    /\ pc' = "done"
    /\ UNCHANGED <<created, temp_paths, segments, presented, status, error>>
    /\ UNCHANGED <<inputVars, selectorVars, parseVars, assemblerVars, cropVars>>

\* The crop and resize steps applied to one frame size.
CropAndResize ==
    /\ pc = "crop"
    /\ crop' = CropRect(frame[1], frame[2])
    /\ out_size' = <<target_w, target_h>>
    /\ pc' = "cropped"
    /\ UNCHANGED <<frame, fs, created, temp_paths, segments, presented, status,
                   error>>
    /\ UNCHANGED <<inputVars, selectorVars, parseVars, assemblerVars>>

\* ------------------------------------------------------- specifications
InitSelector ==
    /\ uploaded_files = <<>>
    /\ poll_idx = 1
    /\ polls = 0
    /\ observed = {}
    /\ attempt = 0
    /\ backoff = <<>>
    /\ gen_requests = 0

InitParse ==
    /\ response = NoResponse
    /\ tried = <<>>
    /\ parsed = <<>>
    /\ raw_shown = <<>>

InitAssembler ==
    /\ seg_idx = 1
    /\ outcomes = <<>>
    /\ opened = <<>>
    /\ clips = <<>>
    /\ concat_input = <<>>
    /\ music = "none"
    /\ encoded = FALSE
    /\ final_video_path = <<>>

InitCrop ==
    /\ frame = <<target_w, target_h>>
    /\ crop = NoCrop
    /\ out_size = <<0, 0>>

\* The selector's state once every upload is ACTIVE and one request was made.
AfterGenerate ==
    /\ checks_passed = TRUE
    /\ n_files = NumSources
    /\ bg_music = NoMusic
    /\ fs = {VideoFile(i) : i \in 1..NumSources}
    /\ created = fs
    /\ temp_paths = [i \in 1..NumSources |-> VideoFile(i)]
    /\ uploaded_files = [i \in 1..NumSources |-> i]
    /\ poll_idx = NumSources
    /\ polls = 0
    /\ observed = 1..NumSources
    /\ attempt = 0
    /\ backoff = <<>>
    /\ gen_requests = 1
    /\ presented = FALSE
    /\ error = "none"

\* The whole run, from the page before the button is pressed.
Init ==
    /\ pc = "idle"
    /\ checks_passed = FALSE
    /\ n_files = 0
    /\ bg_music = NoMusic
    /\ fs = {}
    /\ created = {}
    /\ temp_paths = <<>>
    /\ segments = <<>>
    /\ presented = FALSE
    /\ status = "idle"
    /\ error = "none"
    /\ InitSelector /\ InitParse /\ InitAssembler /\ InitCrop

Next ==
    \/ Click
    \/ UploadOne
    \/ UploadFail
    \/ PersistFail
    \/ PollProcessing
    \/ PollAdvance
    \/ PollFailed
    \/ GenerateOk
    \/ GenerateRateLimited
    \/ GenerateError
    \/ ParseDirect
    \/ ParseFenced
    \/ ParseArray
    \/ MainCheckSegments
    \/ ProcessSegment
    \/ ClipError
    \/ NoClips
    \/ Concatenate
    \/ ConcatError
    \/ AudioMix
    \/ AudioError
    \/ Encode
    \/ EncodeError
    \/ MainResult
    \/ Cleanup

Spec == Init /\ [][Next]_vars

\* process_video_segments on every Edit Decision List over AllSegments, from
\* its entry to the hand-over to concatenation.
InitAssemble ==
    /\ pc = "segments"
    /\ AfterGenerate
    /\ status = "Analysis Complete"
    /\ \E e \in AllEDLs :
          /\ segments = <<e>>
          /\ response = [text |-> <<"[", "v", "]">>, edl |-> e]
    /\ tried = <<1>>
    /\ parsed = << <<"[", "v", "]">> >>
    /\ raw_shown = <<>>
    /\ InitAssembler /\ InitCrop

NextAssemble ==
    \/ ProcessSegment
    \/ ClipError
    \/ NoClips
    \/ Concatenate
    \/ ConcatError

SpecAssemble == InitAssemble /\ [][NextAssemble]_vars

\* The parse cascade on every response text over Tokens.
InitParseRun ==
    /\ pc = "parse_direct"
    /\ AfterGenerate
    /\ status = "idle"
    /\ segments = <<>>
    /\ \E t \in Texts : response = [text |-> t, edl |-> <<>>]
    /\ tried = <<>>
    /\ parsed = <<>>
    /\ raw_shown = <<>>
    /\ InitAssembler /\ InitCrop

NextParse ==
    \/ ParseDirect
    \/ ParseFenced
    \/ ParseArray

SpecParse == InitParseRun /\ [][NextParse]_vars

\* The crop geometry on every frame size over Dims.
InitCropRun ==
    /\ pc = "crop"
    /\ AfterGenerate
    /\ status = "Analysis Complete"
    /\ segments = <<>>
    /\ InitParse /\ InitAssembler
    /\ \E w \in Dims, h \in Dims : frame = <<w, h>>
    /\ crop = NoCrop
    /\ out_size = <<0, 0>>

NextCrop == CropAndResize

SpecCrop == InitCropRun /\ [][NextCrop]_vars


\* --------------------------------------------------------------- claims
RunOver == pc = "done" /\ checks_passed

\* C1 (as claimed): when a run that passed the credential and upload checks
\* has ended, on any path, none of the temp files it created (video copies,
\* audio copy, rendered output) exists any more.
C1_AllTempFilesDeleted == RunOver => (created \cap fs) = {}

SegList == IF segments = <<>> THEN <<>> ELSE segments[1]
NPaths == Len(temp_paths)
ValidIndex(seg) == seg.source_index \in 0..(NPaths - 1)
C3_Clamped(seg) ==
    LET d == SourceDurations[seg.source_index + 1]
    IN  IF seg.end_time > d THEN d ELSE seg.end_time
C3_Dropped(seg) ==
    \/ C3_Clamped(seg) <= seg.start_time
    \/ C3_Clamped(seg) - seg.start_time < MinClip
Count(kind) == Cardinality({k \in DOMAIN outcomes : outcomes[k] = kind})

\* C3: a segment with a valid source_index is validated on its clamped
\* end_time: it is dropped exactly when the clamped end_time <= start_time
\* or the clamped duration is below 0.5 s, a dropped segment adds no clip
\* and does not end the loop, the "no clips" failure happens only when no
\* segment was accepted, and every clip of a valid source has end_time <=
\* source duration and duration >= 0.5 s.
C3_ClampThenValidate ==
    /\ \A k \in DOMAIN outcomes :
          ValidIndex(SegList[k]) =>
             \/ outcomes[k] = "error"
             \/ /\ C3_Dropped(SegList[k])
                /\ outcomes[k] \in {"skip_inverted", "skip_short"}
             \/ /\ ~C3_Dropped(SegList[k])
                /\ outcomes[k] = "clip"
    /\ Len(clips) = Count("clip")
    /\ \A i \in DOMAIN clips :
          /\ clips[i].end <= SourceDurations[clips[i].source]
          /\ clips[i].end - clips[i].start >= MinClip
    /\ (pc = "processed" /\ error = "none") => Count("clip") = 0
    /\ (outcomes # <<>>
          /\ outcomes[Len(outcomes)] \in {"skip_inverted", "skip_short"}) =>
             \/ pc = "segments" /\ seg_idx = Len(outcomes) + 1
             \/ pc = "processed" /\ error = "none" /\ clips = <<>>
             \/ concat_input = <<clips>> /\ clips # <<>>

\* A segment reaching past its source was clamped and kept while another
\* segment of the same list was dropped, and the list went on to concatenation.
C3_Witness ==
    /\ concat_input # <<>>
    /\ \E k \in DOMAIN outcomes :
          /\ ValidIndex(SegList[k])
          /\ outcomes[k] = "clip"
          /\ SegList[k].end_time > SourceDurations[SegList[k].source_index + 1]
    /\ \E k \in DOMAIN outcomes :
          /\ ValidIndex(SegList[k])
          /\ outcomes[k] = "skip_short"
          /\ SegList[k].end_time - SegList[k].start_time >= MinClip

\* C4 (as claimed): every processed segment whose source_index lies outside
\* 0..len(temp_paths)-1, negative values included, is skipped: no file is
\* opened for it, no clip is made from it and the loop goes on.
C4_InvalidIndexSkipped ==
    \A k \in DOMAIN outcomes :
       ~ValidIndex(SegList[k]) => outcomes[k] = "skip_index"

\* The clips the accepted segments of a list give, in list order.
RECURSIVE AcceptedClips(_, _)
AcceptedClips(segs, n) ==
    IF segs = <<>> THEN <<>>
    ELSE IF SegmentOutcome(Head(segs), n) = "clip"
    THEN <<MakeClip(Head(segs), n)>> \o AcceptedClips(Tail(segs), n)
    ELSE AcceptedClips(Tail(segs), n)

\* C5: the clips handed to concatenation are the clips of the accepted
\* segments (those the validation of the segment loop lets through), one
\* per accepting segment, in the order of the Edit Decision List; while
\* the loop runs the clip list is that of the segments processed so far.
C5_ClipsInListOrder ==
    /\ pc = "segments" =>
          clips = AcceptedClips(SubSeq(SegList, 1, seg_idx - 1), NPaths)
    /\ concat_input # <<>> =>
          concat_input[1] = AcceptedClips(SegList, NPaths)

\* Two different segments of one source were both accepted and handed to
\* concatenation, the later one of the list second.
C5_Witness ==
    /\ concat_input # <<>>
    /\ Len(concat_input[1]) = 2
    /\ concat_input[1][1].source = concat_input[1][2].source
    /\ concat_input[1][1] # concat_input[1][2]
    /\ Len(SegList) = 2
    /\ ValidIndex(SegList[1])
    /\ SegList[1].source_index = SegList[2].source_index
    /\ concat_input[1][1].start = SegList[1].start_time
    /\ concat_input[1][2].start = SegList[2].start_time

\* Analysis returned a list and none of its segments yields a clip.
NoSegmentYieldsClip ==
    /\ segments # <<>>
    /\ \A k \in DOMAIN SegList : SegmentOutcome(SegList[k], NPaths) # "clip"

\* C6: when the Edit Decision List is empty or none of its segments passes
\* validation, nothing is concatenated, mixed or encoded, no audio or output
\* file is created, no video is presented, and the run ends in a failure
\* state.
C6_NoValidSegmentsFails ==
    NoSegmentYieldsClip =>
       /\ concat_input = <<>>
       /\ music = "none"
       /\ ~encoded
       /\ OutputFile \notin created
       /\ AudioFile \notin created
       /\ final_video_path = <<>>
       /\ ~presented
       /\ pc \notin {"audio", "encode"}
       /\ pc = "done" =>
             status \in {"Could not analyze videos", "Failed to generate video"}

\* A run ended after every segment of a non-empty list was rejected.
C6_Witness ==
    /\ pc = "done"
    /\ NoSegmentYieldsClip
    /\ SegList # <<>>
    /\ Len(outcomes) = Len(SegList)
    /\ status = "Failed to generate video"

\* C7: a generation request is made only after every uploaded handle was
\* observed ACTIVE; when a handle settles in another state the analysis
\* fails, no request is ever made, the Assembler never runs, and the
\* returned temp_paths hold every temp file created so far.
C7_GenerateOnlyWhenAllActive ==
    /\ (gen_requests > 0 \/ pc = "generate") =>
          /\ Len(uploaded_files) = n_files
          /\ observed = 1..n_files
    /\ error = "file_failed" =>
          /\ gen_requests = 0
          /\ pc \in {"analyzed", "cleanup", "done"}
          /\ segments = <<>>
          /\ outcomes = <<>>
          /\ concat_input = <<>>
          /\ ~presented
          /\ Range(temp_paths) = created
          /\ Len(temp_paths) = n_files

\* The second of two handles settled in a state other than ACTIVE.
C7_Witness ==
    /\ error = "file_failed"
    /\ pc = "analyzed"
    /\ n_files = 2
    /\ observed = {1}

\* What each strategy gives on the response text, by itself.
DirectOk == json_loads(response.text).ok
FencedOk ==
    /\ FencedGroup(response.text) # <<>>
    /\ json_loads(FencedGroup(response.text)[1]).ok
ArrayOk ==
    /\ ArrayGroup(response.text) # <<>>
    /\ json_loads(StripComments(ArrayGroup(response.text)[1])).ok

\* C8: the strategies are tried in the order direct, fenced block, bracketed
\* array; a later one is tried only after every earlier one failed; the
\* value returned is that of the first strategy that succeeds; and the
\* parse fails as malformed, with the raw text shown, iff all three fail.
C8_ParseCascadeOrder ==
    /\ tried \in {<<>>, <<1>>, <<1, 2>>, <<1, 2, 3>>}
    /\ Len(tried) >= 2 => ~DirectOk
    /\ Len(tried) >= 3 => ~FencedOk
    /\ pc = "analyzed" =>
          IF DirectOk
          THEN /\ tried = <<1>>
               /\ parsed = <<json_loads(response.text).val>>
               /\ segments # <<>>
          ELSE IF FencedOk
          THEN /\ tried = <<1, 2>>
               /\ parsed = <<json_loads(FencedGroup(response.text)[1]).val>>
               /\ segments # <<>>
          ELSE IF ArrayOk
          THEN /\ tried = <<1, 2, 3>>
               /\ parsed =
                     <<json_loads(StripComments(ArrayGroup(response.text)[1])).val>>
               /\ segments # <<>>
          ELSE /\ tried = <<1, 2, 3>>
               /\ parsed = <<>>
               /\ segments = <<>>
    /\ error = "malformed" <=>
          (pc = "analyzed" /\ ~DirectOk /\ ~FencedOk /\ ~ArrayOk)
    /\ raw_shown = IF error = "malformed" THEN <<response.text>> ELSE <<>>

\* Prose followed by a fenced array: direct parsing failed and the fenced
\* strategy returned the array.
C8_Witness ==
    /\ pc = "analyzed"
    /\ response.text = <<"x", "F", "[", "v", "]", "F">>
    /\ tried = <<1, 2>>
    /\ parsed = << <<"[", "v", "]">> >>

\* The margins the crop leaves on the cropped axis, and the crop's fit.
WidthCropped == frame[1] * target_h > frame[2] * target_w
MarginLow == IF WidthCropped THEN crop.x1 ELSE crop.y1
MarginHigh ==
    IF WidthCropped THEN frame[1] - crop.crop_w - crop.x1
    ELSE frame[2] - crop.crop_h - crop.y1
CropInside ==
    /\ crop.x1 >= 0
    /\ crop.y1 >= 0
    /\ crop.crop_w >= 0
    /\ crop.crop_h >= 0
    /\ crop.x1 + crop.crop_w <= frame[1]
    /\ crop.y1 + crop.crop_h <= frame[2]
OtherAxisFull ==
    IF WidthCropped THEN crop.y1 = 0 /\ crop.crop_h = frame[2]
    ELSE crop.x1 = 0 /\ crop.crop_w = frame[1]
WholeFrameAtTarget ==
    frame = <<target_w, target_h>> =>
       crop = [crop_w |-> target_w, crop_h |-> target_h, x1 |-> 0, y1 |-> 0]

\* C9 (as claimed): the crop lies inside the frame, the margins trimmed
\* from the two sides of the cropped axis are equal, the other axis is
\* kept whole, the result is resized to 1080x1920, and a 1080x1920 frame
\* is cropped to itself.
C9_EqualMargins ==
    pc = "cropped" =>
       /\ CropInside
       /\ MarginLow = MarginHigh
       /\ OtherAxisFull
       /\ out_size = <<target_w, target_h>>
       /\ WholeFrameAtTarget

\* C9 (amended): as claimed, except that the two margins are equal or the
\* right/bottom one is one pixel larger (the offset is the floor of half
\* the trimmed amount); the crop is empty (width 0) exactly for frames of
\* height 1.
C9_MarginsWithinOnePixel ==
    pc = "cropped" =>
       /\ CropInside
       /\ (crop.crop_w = 0 \/ crop.crop_h = 0) <=> frame[2] = 1
       /\ MarginLow <= MarginHigh
       /\ MarginHigh <= MarginLow + 1
       /\ OtherAxisFull
       /\ out_size = <<target_w, target_h>>
       /\ WholeFrameAtTarget

\* A 1920x1080 frame: 607 columns are kept, 656 trimmed left, 657 right.
C9_Witness ==
    /\ pc = "cropped"
    /\ frame = <<1920, 1080>>
    /\ crop = [crop_w |-> 607, crop_h |-> 1080, x1 |-> 656, y1 |-> 0]
    /\ MarginHigh = 657

\* C10 (as claimed): once process_video_segments has returned, with a path
\* or with a failure, the audio temp file it persisted no longer exists.
C10_AudioTempRemoved ==
    (pc \in {"processed", "cleanup", "done"} /\ AudioFile \in created) =>
       AudioFile \notin fs

====
